---- MODULE Spec2Model ----
(***************************************************************************)
(* A model of the manifold flow-matching core of tum-adlr-05:              *)
(*   - BatchAligner   duplicate_to_batch_size (velocity_mlp.py,            *)
(*                    lightning.py)                                        *)
(*   - ConditionCache efficient_sdf_forward (velocity_mlp.py)              *)
(*   - Sampler        sample / inference_step (flow.py) driving the        *)
(*                    predictor VelocityNetwork.forward (velocity_mlp.py)  *)
(*   - R3Path         the Euclidean part of compute_loss (pl_se3.py,       *)
(*                    lightning.py)                                        *)
(*   - RotationCodec rotmat_to_rotvec (flow.py)                            *)
(*   - SO3Path        sample_location_and_conditional_flow (flow.py) and   *)
(*                    the SO(3) loss of compute_loss                       *)
(*   - the condition features of VelocityNetwork.forward, and the shape    *)
(*     validation of check_collision (visualize.py)                        *)
(*   - Trainer        Lightning.training_step (lightning.py)               *)
(* Tensors are sequences of rows (the leading dimension is the length).    *)
(* Each component has its own specification; the variables of the other    *)
(* components stay at their idle values.                                   *)
(***************************************************************************)
EXTENDS Integers, Sequences, FiniteSets, TLC

VARIABLES
    \* ---- BatchAligner
    al_pc,              \* "idle" | "called" | "twice"
    al_impl,            \* which of the two copies of the method is called
    al_input,           \* the tensor passed as `input`
    target_batch_size,  \* the target size B
    al_result,          \* what the first call returned (or raised)
    al_again,           \* what the call on the first result returned
    \* ---- ConditionCache
    cc_pc,              \* "idle" | "done"
    sdf_paths,          \* the identity key of every row
    sdf_input,          \* the raw conditioning input of every row
    encoder,            \* the encoder: raw row -> feature row
    cc_out,             \* the locals and the result of efficient_sdf_forward
    \* ---- Sampler (sample, inference_step, the predictor)
    s_pc,               \* "Initialized" | "Stepping" | "Done" | "Raised"
    model,              \* the predictor handed to sample
    steps,              \* number of integration steps
    num_samples,        \* batch size of the rollout
    t,                  \* the time grid, torch.linspace(0, 1, steps)
    dt,                 \* the step size, 1 / steps
    idx,                \* loop passes begun so far (the next pass uses t[idx])
    so3_traj,           \* current rotations, one 3x3 matrix per sample
    r3_traj,            \* current translations, one 3-vector per sample
    drawn,              \* history: the initial (rotation, translation) pair
    returned,           \* history: what the last inference_step returned
    used,               \* history: the arguments of the last inference_step, the
                        \* combined_velocity of its predictor call (raw) and the
                        \* so3_velocity the call gave
    n_predict,          \* history: predictor invocations that returned
    velocities,         \* history: the r3_velocity of each step that returned
    \* ---- R3Path (the Euclidean part of compute_loss)
    l_pc,               \* "ready" | "computed" | "recomputed" | "Raised"
    l_module,           \* the LightningModule whose compute_loss is called
    r3_inputs,          \* the target points x1 of the batch
    last,               \* t, noise, x_t_r3, optimal_flow of the latest call
    prev,               \* the same of the call before it
    \* ---- RotationCodec (rotmat_to_rotvec)
    rc_pc,              \* "idle" | "done"
    matrix,             \* the tensor passed as `matrix`: its shape and entries
    rc_out,             \* what rotmat_to_rotvec returned (or raised)
    rc_stages,          \* history: the stages of the function that ran
    rc_quat,            \* history: per matrix, the branch chosen and the quaternion
                        \* before and after the sign step
    \* ---- SO3Path and RiemannianLoss
    p_pc,               \* "ready" | "built" | "scored"
    x0_so3,             \* start rotations, one per batch element
    so3_inputs,         \* target rotations
    p_t,                \* the time tensor: its values and its requires_grad flag
    p_given,            \* history: the arguments as the caller passed them
    xt_so3,             \* the interpolated rotations
    ut_so3,             \* the velocities d(xt)/dt
    vt_so3,             \* the predicted velocities
    so3_loss,           \* the per-element norms and their mean
    \* ---- the condition features inside VelocityNetwork.forward
    fw_pc,              \* "idle" | "done"
    fw_batch,           \* so3_input.shape[0]
    fw_sdf_input,       \* the raw conditioning rows
    fw_sdf_path,        \* the identity keys, or <<>> for None
    fw_encoder,         \* the encoder: raw row -> feature row
    fw_out,             \* the aligned features and what forward returned
    \* ---- check_collision (shape validation)
    ck_pc,              \* "idle" | "done"
    rotation_matrix,    \* the shape of the rotation argument
    translation_vector, \* the shape of the translation argument
    ck_out,             \* what check_collision returned (or raised)
    ck_processed,       \* history: gripper poses processed
    \* ---- Lightning.training_step
    tr_pc,              \* "training" | "Raised"
    tr_model,           \* self.model
    sample_interval,    \* self.config.training.sample_interval
    batch_idx,          \* the batch index the trainer passes next
    tr_last,            \* history: batch index, outcome and sampling of the last step
    tr_logged           \* history: rollouts logged so far

alignVars == <<al_pc, al_impl, al_input, target_batch_size, al_result, al_again>>
cacheVars == <<cc_pc, sdf_paths, sdf_input, encoder, cc_out>>

samplerVars == <<s_pc, model, steps, num_samples, t, dt, idx, so3_traj, r3_traj,
                 drawn, returned, used, n_predict, velocities>>

lossVars == <<l_pc, l_module, r3_inputs, last, prev>>

codecVars == <<rc_pc, matrix, rc_out, rc_stages, rc_quat>>

pathVars == <<p_pc, x0_so3, so3_inputs, p_t, p_given, xt_so3, ut_so3, vt_so3, so3_loss>>

forwardVars == <<fw_pc, fw_batch, fw_sdf_input, fw_sdf_path, fw_encoder, fw_out>>

poseVars == <<ck_pc, rotation_matrix, translation_vector, ck_out, ck_processed>>

\* The components added to the first four.
trainVars == <<tr_pc, tr_model, sample_interval, batch_idx, tr_last, tr_logged>>

laterVars == <<codecVars, pathVars, forwardVars, poseVars, trainVars>>

vars == <<alignVars, cacheVars, samplerVars, lossVars, laterVars>>

\* ------------------------------------------------------------------ bounds
MaxRows == 3        \* longest tensor (leading dimension) enumerated
MaxTarget == 5      \* largest target batch size enumerated
MaxVal == 1         \* row contents are drawn from 0..MaxVal
MaxSteps == 3       \* largest number of integration steps enumerated

RowVals == 0..MaxVal

RECURSIVE SeqsUpTo(_, _)
SeqsUpTo(S, n) ==
    IF n = 0 THEN {<<>>}
    ELSE LET shorter == SeqsUpTo(S, n - 1) IN
         shorter \cup {Append(s, x) : s \in {q \in shorter : Len(q) = n - 1}, x \in S}

\* ------------------------------------------------------- call outcomes
Returned(v) == [raised |-> "none", value |-> v]
Raised(e) == [raised |-> e, value |-> <<>>]
NotCalled == [raised |-> "not called", value |-> <<>>]

\* ------------------------------------------------------- BatchAligner
\* Tensor.repeat(num_copies, 1, ..., 1): num_copies whole copies along dim 0.
RECURSIVE repeat(_, _)
repeat(input, num_copies) ==
    IF num_copies <= 0 THEN <<>> ELSE input \o repeat(input, num_copies - 1)

\* input[:remainder]
Prefix(input, n) == SubSeq(input, 1, IF n < Len(input) THEN n ELSE Len(input))

\* Mutant: the remainder rows are never appended.
duplicate_mut_no_remainder(input, B) ==
    LET current_size == Len(input) IN
    IF current_size >= B THEN Returned(input)
    ELSE IF current_size = 0 THEN Raised("ZeroDivisionError")
    ELSE Returned(repeat(input, B \div current_size))

\* Mutant: a larger input is cut down to the target size.
duplicate_mut_truncate(input, B) ==
    LET current_size == Len(input) IN
    IF current_size >= B THEN Returned(Prefix(input, B))
    ELSE IF current_size = 0 THEN Raised("ZeroDivisionError")
    ELSE LET num_copies == B \div current_size
             remainder == B % current_size
             duplicated == repeat(input, num_copies)
         IN  Returned(IF remainder > 0 THEN duplicated \o Prefix(input, remainder)
                      ELSE duplicated)

\* Mutant: the tiling is forgotten, only the remainder is appended to the input.
duplicate_mut_no_repeat(input, B) ==
    LET current_size == Len(input) IN
    IF current_size >= B THEN Returned(input)
    ELSE IF current_size = 0 THEN Raised("ZeroDivisionError")
    ELSE LET remainder == B % current_size
         IN  Returned(IF remainder > 0 THEN input \o Prefix(input, remainder)
                      ELSE input)

\* VelocityNetwork.duplicate_to_batch_size and Lightning.duplicate_to_batch_size
\* (the two bodies are the same statement for statement).  With an empty input
\* and a positive target, `target // current_size` divides by zero.
duplicate_to_batch_size(input, B) ==
    LET current_size == Len(input) IN
    IF current_size >= B THEN Returned(input)
    ELSE IF current_size = 0 THEN Raised("ZeroDivisionError")
    ELSE LET num_copies == B \div current_size
             remainder == B % current_size
             duplicated == repeat(input, num_copies)
         IN  Returned(IF remainder > 0 THEN duplicated \o Prefix(input, remainder)
                      ELSE duplicated)

\* Lightning.duplicate_to_batch_size: the LightningModule's own copy of the method.
Lightning_duplicate_to_batch_size(input, batch_size) ==
    LET current_size == Len(input) IN
    IF current_size >= batch_size THEN Returned(input)
    ELSE IF current_size = 0 THEN Raised("ZeroDivisionError")
    ELSE LET num_copies == batch_size \div current_size
             remainder == batch_size % current_size
             duplicated == repeat(input, num_copies)
         IN  Returned(IF remainder > 0 THEN duplicated \o Prefix(input, remainder)
                      ELSE duplicated)

\* self.duplicate_to_batch_size(input, B) on an object of class `impl`
Align(impl, input, B) ==
    IF impl = "Lightning" THEN Lightning_duplicate_to_batch_size(input, B)
    ELSE duplicate_to_batch_size(input, B)

\* A call on the outcome of a call: an exception of the inner call propagates.
AlignAgain(impl, outcome, B) ==
    IF outcome.raised # "none" THEN outcome
    ELSE Align(impl, outcome.value, B)

AlignImpls == {"VelocityNetwork", "Lightning"}

AlignStart ==
    /\ al_pc = "idle"
    /\ al_impl \in AlignImpls
    /\ al_input \in SeqsUpTo(RowVals, MaxRows)
    /\ target_batch_size \in 1..MaxTarget
    /\ al_result = NotCalled
    /\ al_again = NotCalled

\* x = duplicate_to_batch_size(input, B)
AlignCall ==
    /\ al_pc = "idle"
    /\ al_pc' = "called"
    /\ al_result' = Align(al_impl, al_input, target_batch_size)
    /\ UNCHANGED <<al_impl, al_input, target_batch_size, al_again>>
    /\ UNCHANGED <<cacheVars, samplerVars, lossVars, laterVars>>

\* duplicate_to_batch_size(x, B) on the result of the first call
AlignCallAgain ==
    /\ al_pc = "called"
    /\ al_pc' = "twice"
    /\ al_again' = AlignAgain(al_impl, al_result, target_batch_size)
    /\ UNCHANGED <<al_impl, al_input, target_batch_size, al_result>>
    /\ UNCHANGED <<cacheVars, samplerVars, lossVars, laterVars>>

AlignNext == AlignCall \/ AlignCallAgain

\* ------------------------------------------------------- ConditionCache
SdfPaths == {"mesh_a", "mesh_b"}

\* The locals of the first loop of efficient_sdf_forward before its first pass.
ScanStart == [unique_sdf_paths |-> <<>>, unique_indices |-> <<>>,
              filename_to_unique_idx |-> <<>>]

\* dict[key] = value on a dict kept as a function on its keys
DictPut(d, k, v) == [x \in (DOMAIN d) \cup {k} |-> IF x = k THEN v ELSE d[x]]

\* Mutant: a key is given the position of its first row, not its group index.
RECURSIVE ScanPaths_mut_position(_, _, _)
ScanPaths_mut_position(paths, i, acc) ==
    IF i >= Len(paths) THEN acc
    ELSE LET sdf_path == paths[i + 1] IN
         IF sdf_path \notin DOMAIN acc.filename_to_unique_idx
         THEN ScanPaths_mut_position(paths, i + 1,
                [unique_sdf_paths |-> Append(acc.unique_sdf_paths, sdf_path),
                 unique_indices |-> Append(acc.unique_indices, i),
                 filename_to_unique_idx |->
                    DictPut(acc.filename_to_unique_idx, sdf_path, i)])
         ELSE ScanPaths_mut_position(paths, i + 1, acc)

\* Mutant: the membership test is lost, every row opens a group of its own.
RECURSIVE ScanPaths_mut_no_dedup(_, _, _)
ScanPaths_mut_no_dedup(paths, i, acc) ==
    IF i >= Len(paths) THEN acc
    ELSE LET sdf_path == paths[i + 1] IN
         ScanPaths_mut_no_dedup(paths, i + 1,
                [unique_sdf_paths |-> Append(acc.unique_sdf_paths, sdf_path),
                 unique_indices |-> Append(acc.unique_indices, i),
                 filename_to_unique_idx |->
                    DictPut(acc.filename_to_unique_idx, sdf_path,
                            Len(acc.unique_sdf_paths))])

\* for i, sdf_path in enumerate(sdf_paths): ... (i counts from 0), from pass i on
RECURSIVE ScanPaths(_, _, _)
ScanPaths(paths, i, acc) ==
    IF i >= Len(paths) THEN acc
    ELSE LET sdf_path == paths[i + 1] IN
         IF sdf_path \notin DOMAIN acc.filename_to_unique_idx
         THEN ScanPaths(paths, i + 1,
                [unique_sdf_paths |-> Append(acc.unique_sdf_paths, sdf_path),
                 unique_indices |-> Append(acc.unique_indices, i),
                 filename_to_unique_idx |->
                    DictPut(acc.filename_to_unique_idx, sdf_path,
                            Len(acc.unique_sdf_paths))])
         ELSE ScanPaths(paths, i + 1, acc)

\* mapping = [filename_to_unique_idx[sdf_path] for sdf_path in sdf_paths]
Mapping(paths, filename_to_unique_idx) ==
    [i \in 1..Len(paths) |-> filename_to_unique_idx[paths[i]]]

\* tensor[indices] with a list of 0-based indices; an index past the end raises
IndexRows(tensor, indices) ==
    IF \E j \in 1..Len(indices) : indices[j] < 0 \/ indices[j] >= Len(tensor)
    THEN Raised("IndexError")
    ELSE Returned([j \in 1..Len(indices) |-> tensor[indices[j] + 1]])

\* self.sdf_encoder(batch): the encoder applied to every row of the batch
sdf_encoder(enc, batch) == [j \in 1..Len(batch) |-> enc[batch[j]]]

\* VelocityNetwork.efficient_sdf_forward, with its locals kept for inspection
efficient_sdf_forward(input, paths, enc) ==
    LET scan == ScanPaths(paths, 0, ScanStart)
        mapping == Mapping(paths, scan.filename_to_unique_idx)
        unique_batch == IndexRows(input, scan.unique_indices)
    IN  IF unique_batch.raised # "none"
        THEN [scan |-> scan, mapping |-> mapping, unique_batch |-> <<>>,
              outcome |-> unique_batch]
        ELSE LET encoded_unique == sdf_encoder(enc, unique_batch.value)
             IN  [scan |-> scan, mapping |-> mapping,
                  unique_batch |-> unique_batch.value,
                  outcome |-> IndexRows(encoded_unique, mapping)]

CacheIdle ==
    /\ cc_pc = "off"
    /\ sdf_paths = <<>>
    /\ sdf_input = <<>>
    /\ encoder = <<>>
    /\ cc_out = <<>>

\* One batch: every row has an identity key and a raw input.
CacheStart ==
    /\ cc_pc = "idle"
    /\ sdf_paths \in SeqsUpTo(SdfPaths, MaxRows) \ {<<>>}
    /\ sdf_input \in {q \in SeqsUpTo(RowVals, MaxRows) : Len(q) = Len(sdf_paths)}
    /\ encoder \in [RowVals -> RowVals]
    /\ cc_out = <<>>

\* final_output = self.efficient_sdf_forward(sdf_input, sdf_paths)
CacheCall ==
    /\ cc_pc = "idle"
    /\ cc_pc' = "done"
    /\ cc_out' = efficient_sdf_forward(sdf_input, sdf_paths, encoder)
    /\ UNCHANGED <<sdf_paths, sdf_input, encoder>>
    /\ UNCHANGED <<alignVars, samplerVars, lossVars, laterVars>>

CacheNext == CacheCall

\* ------------------------------------------------------- numbers
\* Times and step sizes are exact fractions.
Rat(n, d) == [num |-> n, den |-> d]
RatEq(a, b) == a.num * b.den = b.num * a.den
RatSub(a, b) == Rat(a.num * b.den - b.num * a.den, a.den * b.den)

\* A value the integer grid of the model cannot hold (a fractional entry, the
\* exponential of a matrix that is no quarter-turn generator).
OffGrid == <<>>

\* scalar * x for a fraction and an integer: exact, or off the grid
RatExact(q, x) == (q.num * x) % q.den = 0
RatTimes(q, x) == (q.num * x) \div q.den

\* ------------------------------------------------------- 3x3 matrices
\* A matrix is a tuple of three rows.  Rotation matrices hold plain numbers;
\* tangent vectors (velocities, generators) are counted in quarter turns.
Idx3 == {1, 2, 3}
I3 == <<<<1, 0, 0>>, <<0, 1, 0>>, <<0, 0, 1>>>>
Kx == <<<<0, 0, 0>>, <<0, 0, -1>>, <<0, 1, 0>>>>
Ky == <<<<0, 0, 1>>, <<0, 0, 0>>, <<-1, 0, 0>>>>
Kz == <<<<0, -1, 0>>, <<1, 0, 0>>, <<0, 0, 0>>>>
Generators == {Kx, Ky, Kz}

\* Matrices are built as explicit tuples, entry by entry.
Row3(f(_)) == <<f(1), f(2), f(3)>>
Mat3(f(_, _)) ==
    <<<<f(1, 1), f(1, 2), f(1, 3)>>,
      <<f(2, 1), f(2, 2), f(2, 3)>>,
      <<f(3, 1), f(3, 2), f(3, 3)>>>>

MatScale(c, A) == LET e(i, j) == c * A[i][j] IN Mat3(e)
MatAdd(A, B) ==
    IF A = OffGrid \/ B = OffGrid THEN OffGrid
    ELSE LET e(i, j) == A[i][j] + B[i][j] IN Mat3(e)
Transpose(A) == LET e(i, j) == A[j][i] IN Mat3(e)
Det(A) ==
      A[1][1] * (A[2][2] * A[3][3] - A[2][3] * A[3][2])
    - A[1][2] * (A[2][1] * A[3][3] - A[2][3] * A[3][1])
    + A[1][3] * (A[2][1] * A[3][2] - A[2][2] * A[3][1])

\* A @ B, and torch.einsum("...ij,...jk->...ik", A, B)
einsum_ij_jk_ik(A, B) ==
    IF A = OffGrid \/ B = OffGrid THEN OffGrid
    ELSE LET e(i, k) == A[i][1] * B[1][k] + A[i][2] * B[2][k] + A[i][3] * B[3][k]
         IN  Mat3(e)

\* torch.einsum("...ij,...ik->...jk", A, B): the first index of both is summed
einsum_ij_ik_jk(A, B) ==
    IF A = OffGrid \/ B = OffGrid THEN OffGrid
    ELSE LET e(j, k) == A[1][j] * B[1][k] + A[2][j] * B[2][k] + A[3][j] * B[3][k]
         IN  Mat3(e)

\* matrix * dt
MatTimesRat(A, q) ==
    IF A = OffGrid \/ \E i, j \in Idx3 : ~RatExact(q, A[i][j]) THEN OffGrid
    ELSE LET e(i, j) == RatTimes(q, A[i][j]) IN Mat3(e)

\* vector + dt * vector
VecPlusRatTimes(x, q, v) ==
    IF \E i \in Idx3 : ~RatExact(q, v[i]) THEN OffGrid
    ELSE LET e(i) == x[i] + RatTimes(q, v[i]) IN Row3(e)

\* sin and cos of k quarter turns
SinQ(k) == CASE k % 4 = 0 -> 0 [] k % 4 = 1 -> 1 [] k % 4 = 2 -> 0 [] OTHER -> -1
CosQ(k) == CASE k % 4 = 0 -> 1 [] k % 4 = 1 -> 0 [] k % 4 = 2 -> -1 [] OTHER -> 0

\* The number of quarter turns of k * K: the entry of M where K holds 1.
Turns(M, K) == IF K = Kx THEN M[3][2] ELSE IF K = Ky THEN M[1][3] ELSE M[2][1]

\* torch.linalg.matrix_exp on the generators of quarter turns about one axis:
\* exp(theta K) = I + sin(theta) K + (1 - cos(theta)) K K  (Rodrigues).
matrix_exp(M) ==
    IF M = OffGrid THEN OffGrid
    ELSE IF \E K \in Generators : M = MatScale(Turns(M, K), K)
    THEN LET K == CHOOSE G \in Generators : M = MatScale(Turns(M, G), G)
             k == Turns(M, K)
         IN  MatAdd(I3, MatAdd(MatScale(SinQ(k), K),
                               MatScale(1 - CosQ(k), einsum_ij_jk_ik(K, K))))
    ELSE OffGrid

\* R^T R = I and det R = +1
IsRotation(R) ==
    /\ R # OffGrid
    /\ einsum_ij_jk_ik(Transpose(R), R) = I3
    /\ Det(R) = 1

\* ------------------------------------------------------- the predictor
PositionalPassed == 6       \* model(so3_state, r3_state, sdf_input, t, normalization_scale, sdf_path)
ForwardPositional == 5      \* forward(self, so3_input, r3_input, sdf_input, t, sdf_path=None)

\* The predictors handed to sample: the repository's VelocityNetwork, and a
\* predictor whose forward declares the six parameters the call passes.
Predictors == {"VelocityNetwork", "SixParameterPredictor"}

MaxPositional(m) ==
    IF m = "VelocityNetwork" THEN ForwardPositional ELSE PositionalPassed

\* Python binds the positional arguments of a call, or raises TypeError.
CallAccepted(m, passed) == passed <= MaxPositional(m)

\* Mutant: no projection, the raw matrix is taken as it is.
skew_symmetric_part_mut_raw(V) == V

\* 0.5 * (V - V.permute(0, 2, 1)) for one batch element
skew_symmetric_part(V) ==
    IF \E i, j \in Idx3 : (V[i][j] - V[j][i]) % 2 # 0 THEN OffGrid
    ELSE LET e(i, j) == (V[i][j] - V[j][i]) \div 2 IN Mat3(e)

\* The tail of VelocityNetwork.forward: `raw` is combined_velocity, the output
\* of the last linear layer, split into its 3x3 and its 3-vector part.
forward(so3_input, r3_input, raw) ==
    [so3_velocity |->
        [b \in 1..Len(so3_input) |->
            einsum_ij_jk_ik(so3_input[b], skew_symmetric_part(raw[b].so3))],
     r3_velocity |-> [b \in 1..Len(so3_input) |-> raw[b].r3]]

\* What the last linear layer may put out, per unit of time: a generator plus
\* a symmetric part that the projection has to remove.
Sym1 == <<<<1, 1, 0>>, <<1, 0, 0>>, <<0, 0, -1>>>>
Sym2 == <<<<0, 0, 1>>, <<0, 1, 0>>, <<1, 0, 0>>>>
RawDirections ==
    { [so3 |-> MatAdd(Kz, Sym1), r3 |-> <<1, 0, 0>>],
      [so3 |-> MatAdd(Kx, Sym2), r3 |-> <<0, 0, 0>>],
      [so3 |-> Sym1,             r3 |-> <<0, -1, 0>>] }

\* The outputs enumerated for a rollout of n steps: multiples of n, so that
\* dt * velocity stays on the grid.
RawOutputs(n) ==
    { [so3 |-> MatScale(n, d.so3), r3 |-> <<n * d.r3[1], n * d.r3[2], n * d.r3[3]>>] :
        d \in RawDirections }

\* ------------------------------------------------------- inference_step
\* Mutant: the translation step without the step size.
r3_update_mut_no_dt(r3_state, r3_velocity, step) ==
    VecPlusRatTimes(r3_state, Rat(1, 1), r3_velocity)

\* r3_next = r3_state + dt * r3_velocity
r3_update(r3_state, r3_velocity, step) == VecPlusRatTimes(r3_state, step, r3_velocity)

\* Mutant: an additive Euler step on the rotation matrix.
so3_update_mut_euler(so3_state, so3_velocity, step) ==
    MatAdd(so3_state, MatTimesRat(so3_velocity, step))

\* Mutant: the state times the scaled velocity, without the transpose.
so3_update_mut_no_transpose(so3_state, so3_velocity, step) ==
    LET skew_sym == einsum_ij_jk_ik(so3_state, MatTimesRat(so3_velocity, step))
    IN  einsum_ij_jk_ik(so3_state, matrix_exp(skew_sym))

\* skew_sym = einsum("...ij,...ik->...jk", so3_state, so3_velocity * dt)
\* so3_next = einsum("...ij,...jk->...ik", so3_state, matrix_exp(skew_sym))
so3_update(so3_state, so3_velocity, step) ==
    LET skew_sym == einsum_ij_ik_jk(so3_state, MatTimesRat(so3_velocity, step))
    IN  einsum_ij_jk_ik(so3_state, matrix_exp(skew_sym))

\* inference_step(model, so3_state, r3_state, sdf_input, normalization_scale,
\* t, dt, sdf_path): one call of the predictor, then the two updates.
inference_step(m, so3_state, r3_state, t_batch, step, raw) ==
    IF ~CallAccepted(m, PositionalPassed) THEN Raised("TypeError")
    ELSE LET v == forward(so3_state, r3_state, raw)
         IN  Returned(
               <<[b \in 1..Len(so3_state) |->
                     so3_update(so3_state[b], v.so3_velocity[b], step)],
                 [b \in 1..Len(r3_state) |->
                     r3_update(r3_state[b], v.r3_velocity[b], step)]>>)

\* ------------------------------------------------------- sample
NumSamplesDefault == 1      \* sample(..., num_samples: int = 1, ...)
NumSamplesPredict == 2      \* predict_step: sample(..., num_samples=2, ...)
BatchSizes == {NumSamplesDefault, NumSamplesPredict}

\* Mutant: the grid stops one step short of the end point (an arange).
linspace_mut_open(start, end, n) ==
    [i \in 1..n |-> Rat(start * n + (i - 1) * (end - start), n)]

\* torch.linspace(start, end, n): n points from start to end, both included
linspace(start, end, n) ==
    [i \in 1..n |->
        IF n = 1 THEN Rat(start, 1)
        ELSE Rat(start * (n - 1) + (i - 1) * (end - start), n - 1)]

\* Rotation.random(num_samples).as_matrix() and torch.randn(num_samples, 3)
InitRotations == {I3, matrix_exp(Ky)}
InitTranslations == {<<0, 0, 0>>, <<1, -1, 0>>}

\* Mutant: only the rotation is rebound, the translation stays the old one.
Rebind_mut_keep_r3(out, current) == <<out[1], current[2]>>

\* so3_traj, r3_traj = inference_step(...)
Rebind(out, current) == out

\* The pair the next loop pass hands to inference_step.
StepArgs == <<so3_traj, r3_traj>>

SamplerIdle ==
    /\ s_pc = "off"
    /\ model = "VelocityNetwork"
    /\ steps = 1
    /\ num_samples = 1
    /\ t = <<>>
    /\ dt = Rat(1, 1)
    /\ idx = 0
    /\ so3_traj = <<>>
    /\ r3_traj = <<>>
    /\ drawn = <<>>
    /\ returned = <<>>
    /\ used = <<>>
    /\ n_predict = 0
    /\ velocities = <<>>

\* sample, up to the loop: the initial pair, the time grid and the step size.
SamplerStart ==
    /\ s_pc = "Initialized"
    /\ model \in Predictors
    /\ steps \in 1..MaxSteps
    /\ num_samples \in BatchSizes
    /\ so3_traj \in [1..num_samples -> InitRotations]
    /\ r3_traj \in [1..num_samples -> InitTranslations]
    /\ t = linspace(0, 1, steps)
    /\ dt = Rat(1, steps)
    /\ idx = 0
    /\ drawn = <<so3_traj, r3_traj>>
    /\ returned = <<>>
    /\ used = <<>>
    /\ n_predict = 0
    /\ velocities = <<>>

\* One pass of `for t_i in t`: t_batch is built and inference_step is called.
\* (The outcome of the call is bound once, as a value.)
LoopPass ==
    /\ s_pc \in {"Initialized", "Stepping"}
    /\ idx < Len(t)
    /\ \E raw \in [1..num_samples -> RawOutputs(steps)] :
       \E t_batch \in {[b \in 1..num_samples |-> t[idx + 1]]} :
       \E out \in {inference_step(model, StepArgs[1], StepArgs[2], t_batch, dt, raw)} :
         /\ idx' = idx + 1
         /\ used' = [t_batch |-> t_batch, dt |-> dt, r3_state |-> StepArgs[2],
                      so3_state |-> StepArgs[1], raw |-> raw,
                      so3_velocity |-> forward(StepArgs[1], StepArgs[2], raw).so3_velocity]
         /\ \/ /\ out.raised = "none"
               /\ s_pc' = "Stepping"
               /\ \E bound \in {Rebind(out.value, StepArgs)} :
                     /\ so3_traj' = bound[1]
                     /\ r3_traj' = bound[2]
               /\ returned' = out.value
               /\ n_predict' = n_predict + 1
               /\ velocities' = Append(velocities,
                      forward(StepArgs[1], StepArgs[2], raw).r3_velocity)
            \/ /\ out.raised # "none"
               /\ s_pc' = "Raised"
               /\ UNCHANGED <<so3_traj, r3_traj, returned, n_predict, velocities>>
    /\ UNCHANGED <<model, steps, num_samples, t, dt, drawn>>
    /\ UNCHANGED <<alignVars, cacheVars, lossVars, laterVars>>

\* return so3_traj, r3_traj
SampleReturn ==
    /\ s_pc \in {"Initialized", "Stepping"}
    /\ idx >= Len(t)
    /\ s_pc' = "Done"
    /\ UNCHANGED <<model, steps, num_samples, t, dt, idx, so3_traj, r3_traj,
                   drawn, returned, used, n_predict, velocities>>
    /\ UNCHANGED <<alignVars, cacheVars, lossVars, laterVars>>

SamplerNext == LoopPass \/ SampleReturn

\* ------------------------------------------------------- R3Path
SigmaMinNum == 1            \* self.sigma_min: float = 1e-4, as the fraction
SigmaMinDen == 10000        \* SigmaMinNum / SigmaMinDen
sigma_min == Rat(SigmaMinNum, SigmaMinDen)

RatAdd(a, b) == Rat(a.num * b.den + b.num * a.den, a.den * b.den)
RatMul(a, b) == Rat(a.num * b.num, a.den * b.den)
RatOfInt(n) == Rat(n, 1)

DuplicatePassed == 3        \* duplicate_to_batch_size(so3_inputs, batch_size, duplicate_ratio)
DuplicateDeclared == 2      \* duplicate_to_batch_size(self, input, target_batch_size)

LossModules == {"FlowMatching", "Lightning"}

\* torch.rand(batch): the times enumerated are the multiples of 1 / TimeDen
TimeDen == 2
Times == {Rat(k, TimeDen) : k \in 0..TimeDen}

\* torch.randn_like(r3_inputs) and the target points of the data set
R3Points == {<<0, 0, 0>>, <<1, 0, 0>>, <<-1, 2, 0>>}

\* Mutant: the interpolation without sigma_min.
x_t_r3_mut_no_sigma(x1, noise, time) ==
    LET e(i) == RatAdd(RatMul(RatSub(RatOfInt(1), time), RatOfInt(noise[i])),
                       RatMul(time, RatOfInt(x1[i])))
    IN  Row3(e)

\* x_t_r3 = (1 - (1 - sigma_min) * t_expanded) * noise + t_expanded * r3_inputs
x_t_r3_of(x1, noise, time) ==
    LET e(i) == RatAdd(RatMul(RatSub(RatOfInt(1), RatMul(RatSub(RatOfInt(1), sigma_min), time)),
                              RatOfInt(noise[i])),
                       RatMul(time, RatOfInt(x1[i])))
    IN  Row3(e)

\* Mutant: the velocity keeps a factor t on the noise term.
optimal_flow_mut_t(x1, noise, time) ==
    LET e(i) == RatSub(RatOfInt(x1[i]),
                       RatMul(RatMul(RatSub(RatOfInt(1), sigma_min), time), RatOfInt(noise[i])))
    IN  Row3(e)

\* optimal_flow = r3_inputs - (1 - sigma_min) * noise
optimal_flow_of(x1, noise, time) ==
    LET e(i) == RatSub(RatOfInt(x1[i]), RatMul(RatSub(RatOfInt(1), sigma_min), RatOfInt(noise[i])))
    IN  Row3(e)

NoCall == [t |-> <<>>, noise |-> <<>>, x_t_r3 |-> <<>>, optimal_flow |-> <<>>]

LossIdle ==
    /\ l_pc = "off"
    /\ l_module = "FlowMatching"
    /\ r3_inputs = <<>>
    /\ last = NoCall
    /\ prev = NoCall

\* A training batch of one or two target points.
LossStart ==
    /\ l_pc = "ready"
    /\ l_module \in LossModules
    /\ r3_inputs \in SeqsUpTo(R3Points, NumSamplesPredict) \ {<<>>}
    /\ last = NoCall
    /\ prev = NoCall

\* compute_loss(so3_inputs, r3_inputs, ...): the Euclidean part, called
\* on a batch and then once more on the same batch (fresh t, fresh noise).  In
\* Lightning.compute_loss the first statement calls duplicate_to_batch_size
\* with one argument more than the method declares.
ComputeLoss ==
    /\ l_pc \in {"ready", "computed"}
    /\ \/ /\ l_module = "Lightning"
          /\ DuplicatePassed > DuplicateDeclared
          /\ l_pc' = "Raised"
          /\ UNCHANGED <<last, prev>>
       \/ /\ l_module = "FlowMatching" \/ DuplicatePassed <= DuplicateDeclared
          /\ \E time \in [1..Len(r3_inputs) -> Times] :
             \E noise \in [1..Len(r3_inputs) -> R3Points] :
               /\ last' = [t |-> time,
                           noise |-> noise,
                           x_t_r3 |-> [b \in 1..Len(r3_inputs) |->
                                         x_t_r3_of(r3_inputs[b], noise[b], time[b])],
                           optimal_flow |-> [b \in 1..Len(r3_inputs) |->
                                         optimal_flow_of(r3_inputs[b], noise[b], time[b])]]
               /\ prev' = last
               /\ l_pc' = IF l_pc = "ready" THEN "computed" ELSE "recomputed"
    /\ UNCHANGED <<l_module, r3_inputs>>
    /\ UNCHANGED <<alignVars, cacheVars, samplerVars, laterVars>>

LossNext == ComputeLoss

\* ------------------------------------------------------- exact numbers
\* The entries of rotation matrices at eighth and sixth turns are numbers
\* (a + b * sqrt(2)) / d with integers a, b and d > 0, kept in lowest terms.
Abs(n) == IF n < 0 THEN -n ELSE n

RECURSIVE GCD(_, _)
GCD(m, n) == IF n = 0 THEN m ELSE GCD(n, m % n)

Q2(a, b, d) ==
    LET g == GCD(GCD(Abs(a), Abs(b)), d)
    IN  [a |-> a \div g, b |-> b \div g, d |-> d \div g]
QInt(n) == [a |-> n, b |-> 0, d |-> 1]
QAdd(x, y) == Q2(x.a * y.d + y.a * x.d, x.b * y.d + y.b * x.d, x.d * y.d)
QSub(x, y) == Q2(x.a * y.d - y.a * x.d, x.b * y.d - y.b * x.d, x.d * y.d)
QMul(x, y) == Q2(x.a * y.a + 2 * x.b * y.b, x.a * y.b + x.b * y.a, x.d * y.d)
QDivInt(x, n) == Q2(x.a, x.b, x.d * n)

\* a + b * sqrt(2) >= 0
QNonNeg(x) ==
    \/ x.a >= 0 /\ x.b >= 0
    \/ x.a >= 0 /\ x.b < 0 /\ x.a * x.a >= 2 * x.b * x.b
    \/ x.a < 0 /\ x.b >= 0 /\ 2 * x.b * x.b >= x.a * x.a

QLift(A) == LET e(i, j) == QInt(A[i][j]) IN Mat3(e)
QI3 == QLift(I3)
QMatAdd(A, B) == LET e(i, j) == QAdd(A[i][j], B[i][j]) IN Mat3(e)
QMatSub(A, B) == LET e(i, j) == QSub(A[i][j], B[i][j]) IN Mat3(e)
QMatScale(c, A) == LET e(i, j) == QMul(c, A[i][j]) IN Mat3(e)
QMatMul(A, B) ==
    LET e(i, k) == QAdd(QAdd(QMul(A[i][1], B[1][k]), QMul(A[i][2], B[2][k])),
                        QMul(A[i][3], B[3][k]))
    IN  Mat3(e)
QTrace(A) == QAdd(QAdd(A[1][1], A[2][2]), A[3][3])

\* cos of an angle in degrees; sin of it divided by sqrt(n2), the length of
\* an axis with integer entries whose squares sum to n2.
CosDeg(g) ==
    CASE g = 0 -> QInt(1)
      [] g = 45 -> Q2(0, 1, 2)
      [] g = 60 -> Q2(1, 0, 2)
      [] g = 90 -> QInt(0)
      [] g = 120 -> Q2(-1, 0, 2)
      [] g = 180 -> QInt(-1)
SinOverNorm(g, n2) ==
    CASE g = 0 \/ g = 180 -> QInt(0)
      [] g = 45 /\ n2 = 1 -> Q2(0, 1, 2)
      [] g = 90 /\ n2 = 1 -> QInt(1)
      [] g = 90 /\ n2 = 2 -> Q2(0, 1, 2)
      [] g = 60 /\ n2 = 3 -> Q2(1, 0, 2)
      [] g = 120 /\ n2 = 3 -> Q2(1, 0, 2)

\* ------------------------------------------------------- RotationCodec
\* The 24 rotations with entries in {-1, 0, 1}: angles 0, 90, 120 and 180
\* degrees about the coordinate axes, the face diagonals and the body diagonals.
SignedPermutation(p, s) == LET e(i, j) == IF j = p[i] THEN s[i] ELSE 0 IN Mat3(e)
CubeRotations ==
    {M \in {SignedPermutation(p, s) : p \in Permutations(Idx3), s \in [Idx3 -> {-1, 1}]} :
        Det(M) = 1}

\* skew(v) x = v cross x
Skew(v) == <<<<0, -v[3], v[2]>>, <<v[3], 0, -v[1]>>, <<-v[2], v[1], 0>>>>
Norm2(v) == v[1] * v[1] + v[2] * v[2] + v[3] * v[3]

\* decision = torch.cat((matrix_diag, matrix_trace)); choice = torch.argmax:
\* the index of the first maximal value
decision_of(m) == <<m[1][1], m[2][2], m[3][3], m[1][1] + m[2][2] + m[3][3]>>

\* Mutant: the index of the last maximal value.
argmax_mut_last(d) ==
    CHOOSE c \in 1..Len(d) :
        /\ \A o \in 1..Len(d) : d[o] <= d[c]
        /\ \A o \in (c + 1)..Len(d) : d[o] < d[c]

argmax(d) ==
    CHOOSE c \in 1..Len(d) :
        /\ \A o \in 1..Len(d) : d[o] <= d[c]
        /\ \A o \in 1..(c - 1) : d[o] < d[c]

\* (i + 1) % 3 on the indices 1..3
NextIdx(i) == (i % 3) + 1

\* Mutant: the scalar part of the diagonal branches with the other sign.
quat_mut_sign(m) ==
    LET d == decision_of(m)
        i == argmax(d)
        j == NextIdx(i)
        k == NextIdx(j)
    IN  IF i # 4
        THEN [c \in 1..4 |->
                 IF c = i THEN 1 - d[4] + 2 * m[i][i]
                 ELSE IF c = j THEN m[j][i] + m[i][j]
                 ELSE IF c = k THEN m[k][i] + m[i][k]
                 ELSE m[j][k] - m[k][j]]
        ELSE <<m[3][2] - m[2][3], m[1][3] - m[3][1], m[2][1] - m[1][2], 1 + d[4]>>

\* Step 1: the quaternion (x, y, z, w) before normalisation
quat_of(m) ==
    LET d == decision_of(m)
        i == argmax(d)
        j == NextIdx(i)
        k == NextIdx(j)
    IN  IF i # 4
        THEN [c \in 1..4 |->
                 IF c = i THEN 1 - d[4] + 2 * m[i][i]
                 ELSE IF c = j THEN m[j][i] + m[i][j]
                 ELSE IF c = k THEN m[k][i] + m[i][k]
                 ELSE m[k][j] - m[j][k]]
        ELSE <<m[3][2] - m[2][3], m[1][3] - m[3][1], m[2][1] - m[1][2], 1 + d[4]>>

\* Mutant: the sign step left out.
canonical_sign_mut_none(q) == q

\* quat = torch.where(quat[..., 3:4] < 0, -quat, quat); dividing by the norm
\* changes no sign
canonical_sign(q) == IF q[4] < 0 THEN [c \in 1..4 |-> -q[c]] ELSE q

\* What Step 1 and the sign step leave for one matrix: choice and the indices
\* (i, j, k) of lines 32 and 39-41 (none on the trace branch), the
\* quaternion of lines 43-67 and the quaternion after line 73.
quaternion_step(m) ==
    LET i == argmax(decision_of(m))
        j == NextIdx(i)
        k == NextIdx(j)
    IN  [decision |-> decision_of(m),
         choice |-> i,
         ijk |-> IF i # 4 THEN <<i, j, k>> ELSE <<>>,
         quat |-> quat_of(m),
         signed |-> canonical_sign(quat_of(m))]

\* angle = 2.0 * torch.atan2(norm of the vector part, scalar part), in
\* degrees, from the squared length v2 of the vector part and w >= 0
angle_of(v2, w) ==
    CASE v2 = 0 -> 0
      [] v2 # 0 /\ w = 0 -> 180
      [] v2 # 0 /\ w # 0 /\ v2 = w * w -> 90
      [] v2 # 0 /\ w # 0 /\ v2 = 3 * w * w -> 120
      [] v2 # 0 /\ w # 0 /\ 3 * v2 = w * w -> 60

\* the direction of an integer vector, in lowest terms
Primitive(v) ==
    LET g == GCD(GCD(Abs(v[1]), Abs(v[2])), Abs(v[3]))
    IN  IF g = 0 THEN v ELSE <<v[1] \div g, v[2] \div g, v[3] \div g>>

\* A rotation vector is held as its direction (an integer vector) and its
\* length (the angle, in degrees).
RotVec(dir, deg) == [dir |-> dir, deg |-> deg]

\* Step 2: scale[..., None] * quat[..., :3]; small_scale for angle <= 1e-3,
\* large_scale = angle / sin(angle / 2) otherwise
rotvec_of(m) ==
    LET q == canonical_sign(quat_of(m))
        v == <<q[1], q[2], q[3]>>
        angle == angle_of(Norm2(v), q[4])
    IN  IF angle = 0 THEN RotVec(v, 0) ELSE RotVec(Primitive(v), angle)

\* A tensor argument: its shape, and its matrices when it is N x 3 x 3 (or
\* the one matrix when it is 3 x 3).
Tensor(shape, data) == [shape |-> shape, data |-> data]

ShapeError == "ValueError"
AllStages == <<"shape check", "quaternion", "normalize", "rotation vector">>

\* Mutant: only the two trailing dimensions are checked.
rotmat_to_rotvec_mut_trailing(mat) ==
    LET shape == mat.shape IN
    IF Len(shape) < 2 \/ shape[Len(shape)] # 3 \/ shape[Len(shape) - 1] # 3
    THEN [outcome |-> Raised(ShapeError), stages |-> SubSeq(AllStages, 1, 1)]
    ELSE [outcome |-> Returned([n \in 1..Len(mat.data) |-> rotvec_of(mat.data[n])]),
          stages |-> AllStages]

\* rotmat_to_rotvec(matrix): the outcome and the stages that ran
rotmat_to_rotvec(mat) ==
    LET shape == mat.shape IN
    IF Len(shape) # 3 \/ shape[Len(shape)] # 3 \/ shape[Len(shape) - 1] # 3
    THEN [outcome |-> Raised(ShapeError), stages |-> SubSeq(AllStages, 1, 1)]
    ELSE [outcome |-> Returned([n \in 1..shape[1] |-> rotvec_of(mat.data[n])]),
          stages |-> AllStages]

\* vec_manifold.matrix_from_rotation_vector (Rodrigues): with axis a of
\* squared length n2 and angle g,
\*   I + (sin g / |a|) skew(a) + ((1 - cos g) / n2) skew(a) skew(a)
matrix_from_rotation_vector(rv) ==
    IF rv.deg = 0 THEN QI3
    ELSE LET K == QLift(Skew(rv.dir))
             n2 == Norm2(rv.dir)
         IN  QMatAdd(QI3,
               QMatAdd(QMatScale(SinOverNorm(rv.deg, n2), K),
                       QMatScale(QDivInt(QSub(QInt(1), CosDeg(rv.deg)), n2),
                                 QMatMul(K, K))))

MaxRank == 4
MaxDim == 3
Shapes == SeqsUpTo(0..MaxDim, MaxRank)

\* Batches of n rotations: any of the 24 first, then the two start rotations
\* of the sampler.
BatchesOf(n) ==
    IF n = 0 THEN {<<>>}
    ELSE {<<R>> \o rest : R \in CubeRotations, rest \in [1..(n - 1) -> InitRotations]}

TensorsOf(shape) ==
    IF Len(shape) = 3 /\ shape[2] = 3 /\ shape[3] = 3
    THEN {Tensor(shape, data) : data \in BatchesOf(shape[1])}
    ELSE IF shape = <<3, 3>>
    THEN {Tensor(shape, <<R>>) : R \in CubeRotations}
    ELSE {Tensor(shape, <<>>)}

CodecIdle ==
    /\ rc_pc = "off"
    /\ matrix = Tensor(<<>>, <<>>)
    /\ rc_out = NotCalled
    /\ rc_stages = <<>>
    /\ rc_quat = <<>>

CodecStart ==
    /\ rc_pc = "idle"
    /\ \E shape \in Shapes : matrix \in TensorsOf(shape)
    /\ rc_out = NotCalled
    /\ rc_stages = <<>>
    /\ rc_quat = <<>>

\* rot = rotmat_to_rotvec(matrix): `matrix = matrix.to(torch.float64)`
\* rebinds the local name, the caller's tensor is not written.
CodecCall ==
    /\ rc_pc = "idle"
    /\ \E res \in {rotmat_to_rotvec(matrix)} :
         /\ rc_out' = res.outcome
         /\ rc_stages' = res.stages
         /\ rc_quat' = IF res.outcome.raised = "none"
                        THEN [n \in 1..Len(matrix.data) |-> quaternion_step(matrix.data[n])]
                        ELSE <<>>
    /\ rc_pc' = "done"
    /\ UNCHANGED matrix
    /\ UNCHANGED <<alignVars, cacheVars, samplerVars, lossVars,
                   pathVars, forwardVars, poseVars, trainVars>>

CodecNext == CodecCall

\* ------------------------------------------------------- SO3Path
\* The group operations of geomstats' SpecialOrthogonal(n=3,
\* point_type="vector") on rotation vectors.
QToInt(A) == LET e(i, j) == A[i][j].a IN Mat3(e)

\* The rotation vector of a matrix; at a half turn both signs of the axis
\* stand for the matrix, and `sgn` is the one the library picks.
rotation_vector_from_matrix(m, sgn) ==
    LET rv == rotvec_of(m)
    IN  IF rv.deg = 180
        THEN RotVec(<<sgn * rv.dir[1], sgn * rv.dir[2], sgn * rv.dir[3]>>, 180)
        ELSE rv

inverse(rv) == RotVec(<<-rv.dir[1], -rv.dir[2], -rv.dir[3]>>, rv.deg)

compose(a, b, sgn) ==
    rotation_vector_from_matrix(
        QToInt(QMatMul(matrix_from_rotation_vector(a), matrix_from_rotation_vector(b))),
        sgn)

\* A tangent vector at `base` is held as the Jacobian of the left
\* translation by `base` applied to a rotation vector at the identity.
Tangent(base, at_identity) == [base |-> base, at_identity |-> at_identity]

\* Mutant: the translation to the identity from the right.
log_mut_right(point, base_point, sgn) ==
    Tangent(base_point, compose(point, inverse(base_point), sgn))

\* vec_manifold.log_not_from_identity(point, base_point):
\* jacobian(base_point) applied to log_from_identity(inverse(base_point) * point)
log_not_from_identity(point, base_point, sgn) ==
    Tangent(base_point, compose(inverse(base_point), point, sgn))

\* t.reshape(-1, 1) * log_x1: the Jacobian is linear, the angle is scaled
TimesTangent(time, tv) ==
    Tangent(tv.base,
            RotVec(tv.at_identity.dir, (time.num * tv.at_identity.deg) \div time.den))

\* vec_manifold.exp_not_from_identity(tangent_vec, base_point): the inverse
\* Jacobian at base_point undoes the Jacobian of the tangent vector, and the
\* point is base_point * exp_from_identity(...). The product of the two is
\* held by its factors: its own axis and angle are off the grid in general.
exp_not_from_identity(tv, base_point) ==
    [base |-> base_point, step |-> tv.at_identity]

\* vec_manifold.matrix_from_rotation_vector of such a point
point_matrix(p) ==
    QMatMul(matrix_from_rotation_vector(p.base), matrix_from_rotation_vector(p.step))

\* A velocity with entries in degrees per unit time over the length of the
\* axis: the matrix `mat` stands for (pi / 180) / sqrt(n2) * mat.
Velocity(n2, mat) == [n2 |-> IF n2 = 0 THEN 1 ELSE n2, mat |-> mat]

\* Mutant: the derivative with the sign of the second-order term reversed.
xt_dot_mut_sign(base_point, tv, time) ==
    LET a == tv.at_identity.dir
        theta == tv.at_identity.deg
        g == (time.num * theta) \div time.den
        K == QLift(Skew(a))
        n2 == Norm2(a)
    IN  Velocity(n2,
          QMatScale(QInt(theta),
            QMatMul(matrix_from_rotation_vector(base_point),
                    QMatSub(QMatScale(CosDeg(g), K),
                            QMatScale(SinOverNorm(g, n2), QMatMul(K, K))))))

\* torch.autograd.grad of every entry of xt with respect to t, reassembled:
\* with xt = M0 (I + (sin(t theta) / |a|) K + ((1 - cos(t theta)) / n2) K K),
\* d xt / dt = (theta / |a|) M0 (cos(t theta) K + (sin(t theta) / |a|) K K)
xt_dot(base_point, tv, time) ==
    LET a == tv.at_identity.dir
        theta == tv.at_identity.deg
        g == (time.num * theta) \div time.den
        K == QLift(Skew(a))
        n2 == Norm2(a)
    IN  Velocity(n2,
          QMatScale(QInt(theta),
            QMatMul(matrix_from_rotation_vector(base_point),
                    QMatAdd(QMatScale(CosDeg(g), K),
                            QMatScale(SinOverNorm(g, n2), QMatMul(K, K))))))

\* A time tensor: its values and its requires_grad flag.
TimeTensor(values, flag) == [values |-> values, requires_grad |-> flag]

\* sample_location_and_conditional_flow(x0, x1, t); sgn[b] is the axis sign
\* the logarithm takes when x1 is a half turn away from x0.
sample_location_and_conditional_flow(x0, x1, tt, sgn) ==
    LET N == Len(x0)
        rot_x0 == rotmat_to_rotvec(Tensor(<<N, 3, 3>>, x0)).outcome.value
        rot_x1 == rotmat_to_rotvec(Tensor(<<N, 3, 3>>, x1)).outcome.value
        log_x1 == [b \in 1..N |-> log_not_from_identity(rot_x1[b], rot_x0[b], sgn[b])]
        xt_vec == [b \in 1..N |->
                     exp_not_from_identity(TimesTangent(tt.values[b], log_x1[b]), rot_x0[b])]
    IN  [xt |-> [b \in 1..N |-> point_matrix(xt_vec[b])],
         ut |-> [b \in 1..N |-> xt_dot(rot_x0[b], log_x1[b], tt.values[b])],
         t  |-> TimeTensor(tt.values, TRUE)]

\* ------------------------------------------------------- RiemannianLoss
\* Mutant: the predicted velocity without the projection.
tangent_projection_mut_none(so3_input, raw) == QMatMul(so3_input, QLift(raw))

\* skew_symmetric_part = 0.5 * (so3_velocity - so3_velocity.permute(0, 2, 1));
\* so3_velocity = so3_input @ skew_symmetric_part
tangent_projection(so3_input, raw) ==
    QMatMul(so3_input, QLift(skew_symmetric_part(raw)))

\* r = xt^T @ (vt - ut); norm = -trace(r @ r) / 2, in units of (pi / 180)^2
riemannian_norm(x, v, u) ==
    LET r == QMatMul(Transpose(x), QMatSub(v.mat, u.mat))
    IN  QDivInt(QSub(QInt(0), QTrace(QMatMul(r, r))), 2 * u.n2)

RECURSIVE QSum(_)
QSum(q) == IF q = <<>> THEN QInt(0) ELSE QAdd(Head(q), QSum(Tail(q)))

\* torch.mean(norm, dim=-1)
mean(q) == QDivInt(QSum(q), Len(q))

\* The times of the path: its two ends and its middle.
PathTimes == {Rat(0, 1), Rat(1, 2), Rat(1, 1)}

\* One batch element: any two of the 24 rotations.  Two elements: the start
\* rotations of the sampler.
PathBatches ==
    {<<[x0 |-> a, x1 |-> b, t |-> c]>> : a \in CubeRotations, b \in CubeRotations, c \in PathTimes}
    \cup {<<[x0 |-> a, x1 |-> b, t |-> c], [x0 |-> a2, x1 |-> b2, t |-> c2]>> :
            a \in InitRotations, b \in InitRotations, c \in PathTimes,
            a2 \in InitRotations, b2 \in InitRotations, c2 \in PathTimes}

\* What the predictor's last layer puts out for an element whose true body
\* velocity is `body`: the body velocity itself, or a generator, or nothing,
\* each with a symmetric part.
PathRaw(body) ==
    {MatAdd(body, Sym1), MatAdd(Kx, Sym2), Sym1}

PathStart ==
    /\ p_pc = "ready"
    /\ \E batch \in PathBatches :
         /\ x0_so3 = [b \in 1..Len(batch) |-> batch[b].x0]
         /\ so3_inputs = [b \in 1..Len(batch) |-> batch[b].x1]
         /\ p_t = TimeTensor([b \in 1..Len(batch) |-> batch[b].t], FALSE)
    /\ p_given = [x0 |-> x0_so3, x1 |-> so3_inputs, t |-> p_t]
    /\ xt_so3 = <<>>
    /\ ut_so3 = <<>>
    /\ vt_so3 = <<>>
    /\ so3_loss = <<>>

\* xt_so3, ut_so3 = sample_location_and_conditional_flow(x0_so3, so3_inputs, t)
BuildPath ==
    /\ p_pc = "ready"
    /\ \E sgn \in [1..Len(x0_so3) -> {1, -1}] :
       \E res \in {sample_location_and_conditional_flow(x0_so3, so3_inputs, p_t, sgn)} :
         /\ xt_so3' = res.xt
         /\ ut_so3' = res.ut
         /\ p_t' = res.t
    /\ p_pc' = "built"
    /\ UNCHANGED <<x0_so3, so3_inputs, p_given, vt_so3, so3_loss>>
    /\ UNCHANGED <<alignVars, cacheVars, samplerVars, lossVars,
                   codecVars, forwardVars, poseVars, trainVars>>

\* The body velocity xt^T ut of an element, as the integer matrix it is.
BodyVelocity(b) == QToInt(QMatMul(Transpose(xt_so3[b]), ut_so3[b].mat))

\* vt_so3 = the predictor's rotation velocity at xt_so3; r, norm, so3_loss
ScoreSO3 ==
    /\ p_pc = "built"
    /\ \E raw \in [1..Len(xt_so3) -> UNION {PathRaw(BodyVelocity(b)) : b \in 1..Len(xt_so3)}] :
       \E v \in {[b \in 1..Len(xt_so3) |->
                    Velocity(ut_so3[b].n2, tangent_projection(xt_so3[b], raw[b]))]} :
       \E norm \in {[b \in 1..Len(xt_so3) |-> riemannian_norm(xt_so3[b], v[b], ut_so3[b])]} :
         /\ vt_so3' = v
         /\ so3_loss' = [norm |-> norm, mean |-> mean(norm)]
    /\ p_pc' = "scored"
    /\ UNCHANGED <<x0_so3, so3_inputs, p_t, p_given, xt_so3, ut_so3>>
    /\ UNCHANGED <<alignVars, cacheVars, samplerVars, lossVars,
                   codecVars, forwardVars, poseVars, trainVars>>

PathNext == BuildPath \/ ScoreSO3

\* ------------------------------------------------------- forward: the condition
\* torch.cat([sdf_features, so3_flat, r3_input], dim=-1): the leading
\* dimensions have to agree; row b of the result joins row b of each part.
cat_last_dim(features, batch) ==
    IF Len(features) # batch THEN Raised("RuntimeError")
    ELSE Returned([b \in 1..batch |-> <<features[b], "so3_flat", "r3_input">>])

\* VelocityNetwork.forward up to the input of the first layer: the encoded
\* condition, the condition after alignment, and x.
forward_condition(batch, input, paths, enc) ==
    LET encoded == IF paths # <<>>
                   THEN efficient_sdf_forward(input, paths, enc).outcome
                   ELSE Returned(sdf_encoder(enc, input))
        aligned == IF encoded.raised # "none" THEN encoded
                   ELSE IF Len(encoded.value) # batch
                   THEN duplicate_to_batch_size(encoded.value, batch)
                   ELSE encoded
        x == IF aligned.raised # "none" THEN aligned
             ELSE cat_last_dim(aligned.value, batch)
    IN  [encoded |-> encoded, aligned |-> aligned, x |-> x]

ForwardStart ==
    /\ fw_pc = "idle"
    /\ fw_batch \in 1..MaxTarget
    /\ fw_sdf_input \in SeqsUpTo(RowVals, MaxRows)
    /\ fw_sdf_path \in {<<>>} \cup {q \in SeqsUpTo(SdfPaths, MaxRows) : Len(q) = Len(fw_sdf_input)}
    /\ fw_encoder \in [RowVals -> RowVals]
    /\ fw_out = NotCalled

\* so3_velocity, r3_velocity = self.forward(so3_input, r3_input, sdf_input, t, sdf_path)
ForwardCall ==
    /\ fw_pc = "idle"
    /\ fw_out' = forward_condition(fw_batch, fw_sdf_input, fw_sdf_path, fw_encoder)
    /\ fw_pc' = "done"
    /\ UNCHANGED <<fw_batch, fw_sdf_input, fw_sdf_path, fw_encoder>>
    /\ UNCHANGED <<alignVars, cacheVars, samplerVars, lossVars,
                   codecVars, pathVars, poseVars, trainVars>>

ForwardNext == ForwardCall

\* ------------------------------------------------------- check_collision
\* Tensor.unsqueeze(0) on a shape
unsqueeze0(shape) == <<1>> \o shape

\* Mutant: the batch counts are not compared.
check_collision_mut_no_count(rot_shape, tr_shape) ==
    LET is_so3 == rot_shape = <<3, 3>>
        rot == IF is_so3 THEN unsqueeze0(rot_shape) ELSE rot_shape
        tr  == IF is_so3 THEN unsqueeze0(tr_shape) ELSE tr_shape
    IN  IF ~(Len(rot) = 3 /\ SubSeq(rot, 2, 3) = <<3, 3>>)
        THEN [outcome |-> Raised("AssertionError"), processed |-> 0]
        ELSE IF ~(Len(tr) = 2 /\ tr[2] = 3)
        THEN [outcome |-> Raised("AssertionError"), processed |-> 0]
        ELSE [outcome |-> Returned([batch_size |-> rot[1]]), processed |-> rot[1]]

\* check_collision(rotation_matrix, translation_vector, ...): the promotion,
\* the three assertions, and the loop over the batch (one pass per pose)
check_collision(rot_shape, tr_shape) ==
    LET is_so3 == rot_shape = <<3, 3>>
        rot == IF is_so3 THEN unsqueeze0(rot_shape) ELSE rot_shape
        tr  == IF is_so3 THEN unsqueeze0(tr_shape) ELSE tr_shape
    IN  IF ~(Len(rot) = 3 /\ SubSeq(rot, 2, 3) = <<3, 3>>)
        THEN [outcome |-> Raised("AssertionError"), processed |-> 0]
        ELSE IF ~(Len(tr) = 2 /\ tr[2] = 3)
        THEN [outcome |-> Raised("AssertionError"), processed |-> 0]
        ELSE IF rot[1] # tr[1]
        THEN [outcome |-> Raised("AssertionError"), processed |-> 0]
        ELSE [outcome |-> Returned([batch_size |-> rot[1]]), processed |-> rot[1]]

\* Translation arguments: every shape of rank up to 2, and one of rank 3.
TranslationShapes == {q \in Shapes : Len(q) <= 2} \cup {<<1, 1, 3>>}

PoseStart ==
    /\ ck_pc = "idle"
    /\ rotation_matrix \in Shapes
    /\ translation_vector \in TranslationShapes
    /\ ck_out = NotCalled
    /\ ck_processed = 0

\* has_any_collision, scene, min_distance = check_collision(rotation, translation, ...)
PoseCall ==
    /\ ck_pc = "idle"
    /\ \E res \in {check_collision(rotation_matrix, translation_vector)} :
         /\ ck_out' = res.outcome
         /\ ck_processed' = res.processed
    /\ ck_pc' = "done"
    /\ UNCHANGED <<rotation_matrix, translation_vector>>
    /\ UNCHANGED <<alignVars, cacheVars, samplerVars, lossVars,
                   codecVars, pathVars, forwardVars, trainVars>>

PoseNext == PoseCall

\* ------------------------------------------------------- training_step
MaxInterval == 4
MaxBatches == 9

\* The loss values a batch may give (total_loss of compute_loss).
LossValues == {0, 1, 2}

\* The positional arguments the model's duplicate_to_batch_size takes: the
\* repository's VelocityNetwork declares two, the other model the three that
\* compute_loss passes.
DuplicateMax(m) ==
    IF m = "VelocityNetwork" THEN DuplicateDeclared ELSE DuplicatePassed

\* Lightning.compute_loss as training_step sees it: the calls of
\* self.model.duplicate_to_batch_size (lines 52-59) and self.model.forward
\* (80-82) bind their arguments or raise TypeError; otherwise total_loss.
compute_loss_outcome(m, loss) ==
    IF DuplicatePassed > DuplicateMax(m) THEN Raised("TypeError")
    ELSE IF ~CallAccepted(m, PositionalPassed) THEN Raised("TypeError")
    ELSE Returned(loss)

\* (batch_idx % sample_interval == 0) and (batch_idx // sample_interval >= 1)
sample_due(idx_of_batch, interval) ==
    /\ idx_of_batch % interval = 0
    /\ idx_of_batch \div interval >= 1

\* training_step(batch, batch_idx): compute_loss and log_dict, then, when a
\* rollout is due, sample(self.model, ...) and the logging of its scene;
\* `return loss` is the last statement.
training_step(m, idx_of_batch, interval, loss) ==
    LET computed == compute_loss_outcome(m, loss) IN
    IF computed.raised # "none"
    THEN [batch_idx |-> idx_of_batch, outcome |-> computed, sampled |-> FALSE]
    ELSE IF sample_due(idx_of_batch, interval)
    THEN IF ~CallAccepted(m, PositionalPassed)
         THEN [batch_idx |-> idx_of_batch, outcome |-> Raised("TypeError"), sampled |-> FALSE]
         ELSE [batch_idx |-> idx_of_batch, outcome |-> computed, sampled |-> TRUE]
    ELSE [batch_idx |-> idx_of_batch, outcome |-> computed, sampled |-> FALSE]

NoStep == [batch_idx |-> -1, outcome |-> NotCalled, sampled |-> FALSE]

TrainIdle ==
    /\ tr_pc = "off"
    /\ tr_model = "VelocityNetwork"
    /\ sample_interval = 1
    /\ batch_idx = 0
    /\ tr_last = NoStep
    /\ tr_logged = 0

\* An epoch begins: the trainer counts its batches from 0.
TrainStart ==
    /\ tr_pc = "training"
    /\ tr_model \in Predictors
    /\ sample_interval \in 1..MaxInterval
    /\ batch_idx = 0
    /\ tr_last = NoStep
    /\ tr_logged = 0

\* The trainer calls training_step on the next batch; an exception ends the
\* training run.
TrainingStep ==
    /\ tr_pc = "training"
    /\ batch_idx < MaxBatches
    /\ \E loss \in LossValues :
       \E res \in {training_step(tr_model, batch_idx, sample_interval, loss)} :
         /\ tr_last' = res
         /\ tr_logged' = IF res.sampled THEN tr_logged + 1 ELSE tr_logged
         /\ tr_pc' = IF res.outcome.raised = "none" THEN "training" ELSE "Raised"
    /\ batch_idx' = batch_idx + 1
    /\ UNCHANGED <<tr_model, sample_interval>>
    /\ UNCHANGED <<alignVars, cacheVars, samplerVars, lossVars,
                   codecVars, pathVars, forwardVars, poseVars>>

TrainNext == TrainingStep

PathIdle ==
    /\ p_pc = "off"
    /\ x0_so3 = <<>>
    /\ so3_inputs = <<>>
    /\ p_t = <<>>
    /\ p_given = <<>>
    /\ xt_so3 = <<>>
    /\ ut_so3 = <<>>
    /\ vt_so3 = <<>>
    /\ so3_loss = <<>>

ForwardIdle ==
    /\ fw_pc = "off"
    /\ fw_batch = 1
    /\ fw_sdf_input = <<>>
    /\ fw_sdf_path = <<>>
    /\ fw_encoder = <<>>
    /\ fw_out = NotCalled

PoseIdle ==
    /\ ck_pc = "off"
    /\ rotation_matrix = <<>>
    /\ translation_vector = <<>>
    /\ ck_out = NotCalled
    /\ ck_processed = 0

\* ------------------------------------------------------- specifications
AlignIdle ==
    /\ al_pc = "off"
    /\ al_impl = "VelocityNetwork"
    /\ al_input = <<>>
    /\ target_batch_size = 1
    /\ al_result = NotCalled
    /\ al_again = NotCalled

FirstIdle == AlignIdle /\ CacheIdle /\ SamplerIdle /\ LossIdle
LaterIdle == CodecIdle /\ PathIdle /\ ForwardIdle /\ PoseIdle /\ TrainIdle

AlignInit == AlignStart /\ CacheIdle /\ SamplerIdle /\ LossIdle /\ LaterIdle
CacheInit == CacheStart /\ AlignIdle /\ SamplerIdle /\ LossIdle /\ LaterIdle
SamplerInit == SamplerStart /\ AlignIdle /\ CacheIdle /\ LossIdle /\ LaterIdle
LossInit == LossStart /\ AlignIdle /\ CacheIdle /\ SamplerIdle /\ LaterIdle

SpecAlign == AlignInit /\ [][AlignNext]_vars
SpecCache == CacheInit /\ [][CacheNext]_vars
SpecSampler == SamplerInit /\ [][SamplerNext]_vars
SpecLoss == LossInit /\ [][LossNext]_vars

CodecInit == CodecStart /\ FirstIdle /\ PathIdle /\ ForwardIdle /\ PoseIdle /\ TrainIdle
SpecCodec == CodecInit /\ [][CodecNext]_vars

PathInit == PathStart /\ FirstIdle /\ CodecIdle /\ ForwardIdle /\ PoseIdle /\ TrainIdle
SpecPath == PathInit /\ [][PathNext]_vars

ForwardInit == ForwardStart /\ FirstIdle /\ CodecIdle /\ PathIdle /\ PoseIdle /\ TrainIdle
SpecForward == ForwardInit /\ [][ForwardNext]_vars

PoseInit == PoseStart /\ FirstIdle /\ CodecIdle /\ PathIdle /\ ForwardIdle /\ TrainIdle
SpecPose == PoseInit /\ [][PoseNext]_vars

TrainInit == TrainStart /\ FirstIdle /\ CodecIdle /\ PathIdle /\ ForwardIdle /\ PoseIdle
SpecTrain == TrainInit /\ [][TrainNext]_vars

\* ------------------------------------------------------------ C1
Max(a, b) == IF a >= b THEN a ELSE b

\* C1 as stated (read on the non-empty inputs): whatever the input's leading
\* dimension C and the target B, the call returns a tensor whose leading
\* dimension is exactly B.
C1_SizeLawAlways ==
    (al_pc # "idle" /\ Len(al_input) >= 1) =>
        /\ al_result.raised = "none"
        /\ Len(al_result.value) = target_batch_size

\* C1 amended: for an input with C >= 1 rows the call returns a tensor whose
\* leading dimension is max(C, B): exactly B when C <= B, and C (the input
\* as it is) when C > B.
C1_SizeLawUpTo ==
    (al_pc # "idle" /\ Len(al_input) >= 1) =>
        /\ al_result.raised = "none"
        /\ Len(al_result.value) = Max(Len(al_input), target_batch_size)
        /\ (Len(al_input) <= target_batch_size
                => Len(al_result.value) = target_batch_size)

\* A call that had to tile and to append a remainder reached size B.
C1_Witness ==
    /\ al_pc = "called"
    /\ Len(al_input) >= 2
    /\ Len(al_input) < target_batch_size
    /\ target_batch_size % Len(al_input) # 0
    /\ Len(al_result.value) = target_batch_size

\* ------------------------------------------------------------ C2
\* C2: when C >= B the output is the input unchanged (no truncation); when
\* 1 <= C < B the output has exactly B rows and row i of the output is row
\* (i mod C) of the input (rows counted from 0).
C2_AlignPolicy ==
    al_pc # "idle" =>
        LET C == Len(al_input)
            B == target_batch_size
        IN  /\ C >= B => al_result = Returned(al_input)
            /\ (1 <= C /\ C < B) =>
                  /\ al_result.raised = "none"
                  /\ Len(al_result.value) = B
                  /\ \A i \in 0..(B - 1) :
                        al_result.value[i + 1] = al_input[(i % C) + 1]

\* Both cases happen: here a strictly larger input came back whole ...
C2_Witness ==
    /\ al_pc = "called"
    /\ Len(al_input) > target_batch_size
    /\ target_batch_size >= 1
    /\ al_result.value = al_input
    /\ \E i, j \in 1..Len(al_input) : al_input[i] # al_input[j]

\* ------------------------------------------------------------ C3
\* C3: the aligner is idempotent and pure: aligning the result of a call to
\* the same B gives that result again (an exception of the first call is the
\* outcome of the composition too), and the input tensor is the same before
\* and after the calls.
C3_Idempotent ==
    [][ /\ al_input' = al_input
        /\ (al_pc' = "twice" => al_again' = al_result') ]_vars

\* The second call acted on a result that the first call had to build.
C3_Witness ==
    /\ al_pc = "twice"
    /\ 1 <= Len(al_input)
    /\ Len(al_input) < target_batch_size
    /\ al_again.raised = "none"
    /\ Len(al_again.value) = target_batch_size

\* ------------------------------------------------------------ C4
\* Rows that carry the same identity key carry the same raw input.
KeysDetermineInput ==
    \A i, j \in 1..Len(sdf_paths) :
        sdf_paths[i] = sdf_paths[j] => sdf_input[i] = sdf_input[j]

\* C4 as stated: for every sequence of (key, raw input) rows and every
\* encoder, row i of the output is the encoder applied to row i's own input.
C4_CacheEquivalenceAlways ==
    cc_pc = "done" =>
        /\ cc_out.outcome.raised = "none"
        /\ Len(cc_out.outcome.value) = Len(sdf_input)
        /\ \A i \in 1..Len(sdf_input) :
              cc_out.outcome.value[i] = encoder[sdf_input[i]]

\* C4 amended: whenever rows with the same identity key carry the same raw
\* input, row i of the output is the encoder applied to row i's own input.
C4_CacheEquivalenceKeyed ==
    (cc_pc = "done" /\ KeysDetermineInput) =>
        /\ cc_out.outcome.raised = "none"
        /\ Len(cc_out.outcome.value) = Len(sdf_input)
        /\ \A i \in 1..Len(sdf_input) :
              cc_out.outcome.value[i] = encoder[sdf_input[i]]

\* The dedup path was taken: a key repeats after another key came between,
\* the two keys carry inputs the encoder tells apart, and the output is back.
C4_Witness ==
    /\ cc_pc = "done"
    /\ KeysDetermineInput
    /\ Len(cc_out.unique_batch) < Len(sdf_paths)
    /\ Len(cc_out.unique_batch) >= 2
    /\ \E i, j \in 1..Len(sdf_paths) :
          /\ i + 1 < j
          /\ sdf_paths[i] = sdf_paths[j]
          /\ sdf_paths[i + 1] # sdf_paths[i]
          /\ encoder[sdf_input[i + 1]] # encoder[sdf_input[i]]
    /\ cc_out.outcome.raised = "none"

\* ------------------------------------------------------------ C5
\* Position i (from 0) is the first occurrence of its key.
IsFirstOccurrence(i) ==
    \A h \in 0..(i - 1) : sdf_paths[h + 1] # sdf_paths[i + 1]

\* C5: the encoder is handed exactly the rows at the first occurrence of each
\* distinct key, in order of first occurrence (as many rows as distinct
\* keys); every position is mapped to the group of the first occurrence of
\* its key; the output has one row per input position.
C5_EncodeOncePerKey ==
    cc_pc = "done" =>
        LET ui == cc_out.scan.unique_indices
            n == Len(sdf_paths)
        IN  /\ {ui[j] : j \in 1..Len(ui)} = {i \in 0..(n - 1) : IsFirstOccurrence(i)}
            /\ \A j \in 1..(Len(ui) - 1) : ui[j] < ui[j + 1]
            /\ Len(ui) = Cardinality({sdf_paths[i] : i \in 1..n})
            /\ cc_out.unique_batch = [j \in 1..Len(ui) |-> sdf_input[ui[j] + 1]]
            /\ Len(cc_out.mapping) = n
            /\ \A i \in 1..n :
                  /\ cc_out.mapping[i] \in 0..(Len(ui) - 1)
                  /\ sdf_paths[ui[cc_out.mapping[i] + 1] + 1] = sdf_paths[i]
            /\ cc_out.outcome.raised = "none"
            /\ Len(cc_out.outcome.value) = n

\* Three rows, two keys: fewer rows were encoded than the batch holds.
C5_Witness ==
    /\ cc_pc = "done"
    /\ Len(sdf_paths) >= 3
    /\ Len(cc_out.unique_batch) = 2
    /\ sdf_paths[1] = sdf_paths[3]
    /\ cc_out.mapping[3] = 0

\* ------------------------------------------------------------ C6
\* C6: for every steps >= 1 a call of sample ends Done, after exactly `steps`
\* calls of inference_step with one predictor invocation each; it never
\* ends otherwise and never takes more passes than `steps`.
C6_SampleCompletes ==
    /\ s_pc \in {"Initialized", "Stepping", "Done"}
    /\ idx <= steps
    /\ n_predict = idx
    /\ (s_pc = "Done" => idx = steps)

\* ------------------------------------------------------------ C7
\* C7: the time grid has `steps` points, starts at 0, ends at 1 (when it has
\* more than one point) and is evenly spaced; each pass is handed its own
\* grid point for the whole batch; the step size handed to every pass is the
\* same 1 / steps.
C7_TimeGrid ==
    s_pc \in {"Initialized", "Stepping", "Done", "Raised"} =>
        /\ Len(t) = steps
        /\ RatEq(t[1], Rat(0, 1))
        /\ (steps >= 2 => RatEq(t[steps], Rat(1, 1)))
        /\ \A i \in 1..(steps - 1) :
              RatEq(RatSub(t[i + 1], t[i]), RatSub(t[2], t[1]))
        /\ RatEq(dt, Rat(1, steps))
        /\ (idx >= 1 =>
              /\ RatEq(used.dt, Rat(1, steps))
              /\ \A b \in 1..num_samples : used.t_batch[b] = t[idx])

\* The third pass of a three-step rollout was handed the end point 1.
C7_Witness ==
    /\ s_pc = "Stepping"
    /\ steps >= 3
    /\ idx = 3
    /\ RatEq(used.t_batch[1], Rat(1, 1))
    /\ RatEq(t[2], Rat(1, 2))

\* ------------------------------------------------------------ C8
\* C8: the pair a pass hands to inference_step is the freshly drawn pair at
\* the first pass and, at every later pass, exactly the pair the pass before
\* it got back; the pair sample returns is the last one it got back.
C8_Sequential ==
    /\ (s_pc = "Initialized" => StepArgs = drawn)
    /\ (s_pc \in {"Stepping", "Done"} => StepArgs = returned)

\* Two passes done, both components of the state have moved, a third is due.
C8_Witness ==
    /\ s_pc = "Stepping"
    /\ idx = 2
    /\ idx < steps
    /\ returned[1] # drawn[1]
    /\ returned[2] # drawn[2]
    /\ StepArgs = returned

\* ------------------------------------------------------------ C9
\* C9: at every point of a rollout every rotation of the batch is
\* orthonormal with determinant +1.
C9_Orthonormal ==
    s_pc \in {"Initialized", "Stepping", "Done"} =>
        \A b \in 1..num_samples : IsRotation(so3_traj[b])

\* A finished rollout of two samples whose rotations both moved, by
\* different amounts.
C9_Witness ==
    /\ s_pc = "Done"
    /\ steps >= 2
    /\ num_samples = 2
    /\ so3_traj[1] # drawn[1][1]
    /\ so3_traj[2] # drawn[1][2]
    /\ so3_traj[1] # so3_traj[2]
    /\ drawn[1][1] = drawn[1][2]

\* ------------------------------------------------------------ C10
\* C10: for every batch element and coordinate the optimal velocity of a
\* call is x1 - (1 - sigmaMin) * noise, i.e. SigmaMinDen * ut =
\* SigmaMinDen * x1 - (SigmaMinDen - SigmaMinNum) * noise; and two calls
\* with the same noise give the same velocity whatever their times.
C10_R3Velocity ==
    l_pc \in {"computed", "recomputed"} =>
        /\ \A b \in 1..Len(r3_inputs) : \A i \in Idx3 :
              LET ut == last.optimal_flow[b][i] IN
              SigmaMinDen * ut.num =
                (SigmaMinDen * r3_inputs[b][i]
                    - (SigmaMinDen - SigmaMinNum) * last.noise[b][i]) * ut.den
        /\ (prev # NoCall /\ prev.noise = last.noise) =>
              \A b \in 1..Len(r3_inputs) : \A i \in Idx3 :
                RatEq(prev.optimal_flow[b][i], last.optimal_flow[b][i])

\* Two calls on the same targets with the same non-zero noise at two
\* different times: the interpolated points differ, the velocities do not.
C10_Witness ==
    /\ l_pc = "recomputed"
    /\ prev # NoCall
    /\ prev.noise = last.noise
    /\ last.noise[1] # <<0, 0, 0>>
    /\ ~RatEq(prev.t[1], last.t[1])
    /\ ~RatEq(prev.x_t_r3[1][1], last.x_t_r3[1][1])
    /\ RatEq(prev.optimal_flow[1][1], last.optimal_flow[1][1])

\* ------------------------------------------------------------ C11
LossComputed == l_pc \in {"computed", "recomputed"}

\* C11: for every batch element and coordinate the interpolated point of a
\* call is xt = (1 - (1 - sigmaMin) * t) * noise + t * x1; it equals noise
\* at t = 0 and sigmaMin * noise + x1 at t = 1; with x1 = [1,0,0],
\* noise = [0,0,0] and t = 1 both xt and ut are [1,0,0].
C11_R3Interpolation ==
    LossComputed =>
        \A b \in 1..Len(r3_inputs) :
          /\ \A i \in Idx3 :
               LET xt == last.x_t_r3[b][i]
                   tt == last.t[b]
                   n  == last.noise[b][i]
                   x  == r3_inputs[b][i]
               IN  /\ xt.num * (SigmaMinDen * tt.den) =
                        ((SigmaMinDen * tt.den - (SigmaMinDen - SigmaMinNum) * tt.num) * n
                           + SigmaMinDen * tt.num * x) * xt.den
                   /\ (tt.num = 0 => xt.num = n * xt.den)
                   /\ (tt.num = tt.den =>
                          SigmaMinDen * xt.num = (SigmaMinNum * n + SigmaMinDen * x) * xt.den)
          /\ (/\ r3_inputs[b] = <<1, 0, 0>>
              /\ last.noise[b] = <<0, 0, 0>>
              /\ RatEq(last.t[b], RatOfInt(1)))
             => \A i \in Idx3 :
                  /\ RatEq(last.x_t_r3[b][i], RatOfInt(<<1, 0, 0>>[i]))
                  /\ RatEq(last.optimal_flow[b][i], RatOfInt(<<1, 0, 0>>[i]))

\* The scenario of the claim in the first batch element, and in the second
\* a non-zero noise at t = 0.
C11_Witness ==
    /\ LossComputed
    /\ Len(r3_inputs) = 2
    /\ r3_inputs[1] = <<1, 0, 0>>
    /\ last.noise[1] = <<0, 0, 0>>
    /\ RatEq(last.t[1], RatOfInt(1))
    /\ last.x_t_r3[1][1].num = last.x_t_r3[1][1].den
    /\ last.noise[2] = <<-1, 2, 0>>
    /\ last.t[2].num = 0
    /\ r3_inputs[2] = <<1, 0, 0>>

\* ------------------------------------------------------------ C13
IsBatchOf3x3(shape) == Len(shape) = 3 /\ shape[2] = 3 /\ shape[3] = 3

\* C13: rotmat_to_rotvec raises the shape error, with nothing but the shape
\* check run, for every input whose shape is not N x 3 x 3 (a single 3 x 3
\* matrix included), and does not raise it for any N x 3 x 3 input.
C13_ShapeCheck ==
    rc_pc = "done" =>
        /\ ~IsBatchOf3x3(matrix.shape) =>
              rc_out = Raised(ShapeError) /\ rc_stages = <<"shape check">>
        /\ IsBatchOf3x3(matrix.shape) =>
              /\ rc_out.raised = "none"
              /\ Len(rc_out.value) = matrix.shape[1]

\* An unbatched 3 x 3 rotation was passed and rejected.
C13_Witness ==
    /\ rc_pc = "done"
    /\ matrix.shape = <<3, 3>>
    /\ matrix.data[1] # I3
    /\ rc_out = Raised(ShapeError)

PathBuilt == p_pc \in {"built", "scored"}

\* C15: for every batch element, xt is x0 when its time is 0 and x1 when its
\* time is 1.
C15_BoundaryLaw ==
    PathBuilt =>
        \A b \in 1..Len(xt_so3) :
            /\ RatEq(p_t.values[b], Rat(0, 1)) => xt_so3[b] = QLift(x0_so3[b])
            /\ RatEq(p_t.values[b], Rat(1, 1)) => xt_so3[b] = QLift(so3_inputs[b])

\* t = 1 with x1 a third of a turn away from a start that is not the identity.
C15_Witness ==
    /\ PathBuilt
    /\ RatEq(p_t.values[1], Rat(1, 1))
    /\ x0_so3[1] # I3
    /\ ut_so3[1].n2 = 3
    /\ xt_so3[1] = QLift(so3_inputs[1])
    /\ so3_inputs[1] # x0_so3[1]

\* ------------------------------------------------------------ C16
QZero3 == QLift(<<<<0, 0, 0>>, <<0, 0, 0>>, <<0, 0, 0>>>>)
Rz90 == <<<<0, -1, 0>>, <<1, 0, 0>>, <<0, 0, 1>>>>
Rz45 ==
    <<<<Q2(0, 1, 2), Q2(0, -1, 2), QInt(0)>>,
      <<Q2(0, 1, 2), Q2(0, 1, 2), QInt(0)>>,
      <<QInt(0), QInt(0), QInt(1)>>>>

PulledBack(b) == QMatMul(Transpose(xt_so3[b]), ut_so3[b].mat)
SymmetricPartZero(b) == QMatAdd(PulledBack(b), Transpose(PulledBack(b))) = QZero3
ProportionalToKz(M) == M = QMatScale(M[2][1], QLift(Kz)) /\ M # QZero3
IsScenario(b) ==
    /\ x0_so3[b] = I3
    /\ so3_inputs[b] = Rz90
    /\ RatEq(p_t.values[b], Rat(1, 2))

\* C16 as stated: xt^T ut has no symmetric part, and in the scenario
\* (identity to a quarter turn about z, t = 0.5) xt is the eighth turn
\* about z and ut itself is a multiple of the z generator.
C16_TangencyLiteral ==
    PathBuilt =>
        \A b \in 1..Len(xt_so3) :
            /\ SymmetricPartZero(b)
            /\ IsScenario(b) => (xt_so3[b] = Rz45 /\ ProportionalToKz(ut_so3[b].mat))

\* C16: xt^T ut has no symmetric part, and in the scenario xt is the eighth
\* turn about z and the pulled-back velocity xt^T ut is a non-zero multiple
\* of the z generator.
C16_TangencyPulledBack ==
    PathBuilt =>
        \A b \in 1..Len(xt_so3) :
            /\ SymmetricPartZero(b)
            /\ IsScenario(b) => (xt_so3[b] = Rz45 /\ ProportionalToKz(PulledBack(b)))

\* The scenario, with a velocity that is not zero.
C16_Witness ==
    /\ PathBuilt
    /\ IsScenario(1)
    /\ xt_so3[1] = Rz45
    /\ ut_so3[1].mat # QZero3

C17_ArgumentsUntouched ==
    PathBuilt =>
        /\ x0_so3 = p_given.x0
        /\ so3_inputs = p_given.x1
        /\ p_t = p_given.t

\* ------------------------------------------------------------ C18
\* C18: whenever the encoded condition has a leading dimension (of at least
\* one row) different from the state batch size, the aligned features have
\* exactly the batch size and the forward pass gets past the concatenation.
C18_ToleratesMismatch ==
    (/\ fw_pc = "done"
     /\ fw_out.encoded.raised = "none"
     /\ Len(fw_out.encoded.value) >= 1
     /\ Len(fw_out.encoded.value) # fw_batch)
    => /\ fw_out.aligned.raised = "none"
       /\ Len(fw_out.aligned.value) = fw_batch
       /\ fw_out.x.raised = "none"

\* ------------------------------------------------------------ C19
IsBatchOf3(shape) == Len(shape) = 2 /\ shape[2] = 3
IsSinglePose == rotation_matrix = <<3, 3>> /\ translation_vector = <<3>>
Rejected == ck_out = Raised("AssertionError") /\ ck_processed = 0

\* C19: a single 3 x 3 rotation with a 3-vector translation is processed as
\* a batch of one; any other input whose rotation is not N x 3 x 3 or whose
\* translation is not N x 3 is rejected, and so is one whose batch counts
\* differ, with no pose processed and nothing returned; an N x 3 x 3
\* rotation with an N x 3 translation is processed as N poses.
C19_PoseValidation ==
    ck_pc = "done" =>
        /\ IsSinglePose =>
              ck_out = Returned([batch_size |-> 1]) /\ ck_processed = 1
        /\ (/\ ~IsSinglePose
            /\ ~IsBatchOf3x3(rotation_matrix) \/ ~IsBatchOf3(translation_vector))
           => Rejected
        /\ (/\ IsBatchOf3x3(rotation_matrix)
            /\ IsBatchOf3(translation_vector)
            /\ rotation_matrix[1] # translation_vector[1])
           => Rejected
        /\ (/\ IsBatchOf3x3(rotation_matrix)
            /\ IsBatchOf3(translation_vector)
            /\ rotation_matrix[1] = translation_vector[1])
           => ck_out = Returned([batch_size |-> rotation_matrix[1]])

\* Two rotations with three translations were rejected.
C19_Witness ==
    /\ ck_pc = "done"
    /\ rotation_matrix = <<2, 3, 3>>
    /\ translation_vector = <<3, 3>>
    /\ Rejected


\* ---------------------------------------------------------------- C20
\* The sum, per coordinate, of the velocities the predictor gave sample b.
RECURSIVE VelocitySum(_, _, _)
VelocitySum(hist, b, i) ==
    IF hist = <<>> THEN 0
    ELSE hist[Len(hist)][b][i] + VelocitySum(SubSeq(hist, 1, Len(hist) - 1), b, i)

\* C20: the translation update is explicit Euler.  Every step that returned
\* gave, for every batch element, r3_next = r3_state + dt * r3_velocity with
\* the velocity the predictor put out, and after k such steps the translation
\* is the initial translation plus dt times the sum of the k velocities.
C20_ExplicitEuler ==
    (s_pc \in {"Stepping", "Done"}) =>
        /\ Len(velocities) = n_predict
        /\ \A b \in 1..num_samples : \A i \in Idx3 :
              /\ n_predict >= 1 =>
                    RatEq(Rat(returned[2][b][i], 1),
                          RatAdd(Rat(used.r3_state[b][i], 1),
                                 RatMul(used.dt, Rat(velocities[n_predict][b][i], 1))))
              /\ RatEq(Rat(r3_traj[b][i], 1),
                       RatAdd(Rat(drawn[2][b][i], 1),
                              RatMul(dt, Rat(VelocitySum(velocities, b, i), 1))))

\* C20 witness: a rollout of several steps has returned, the step size is a
\* proper fraction and the velocities of the first sample do not cancel.
C20_Witness ==
    /\ s_pc = "Done"
    /\ steps >= 2
    /\ n_predict = steps
    /\ \E i \in Idx3 : VelocitySum(velocities, 1, i) # 0
    /\ r3_traj # drawn[2]


\* ---------------------------------------------------------------- C21
\* rot^T * (so3Velocity * dt), written with the transpose and the matrix product
BodyFrame(rot, velocity, step) ==
    einsum_ij_jk_ik(Transpose(rot), MatTimesRat(velocity, step))

\* C21: the rotation update is a right-multiplicative exponential step.  Every
\* step that returned gave, for every batch element,
\* rot_next = rot * matrix_exp(rot^T * (so3_velocity * dt)).
C21_ExponentialStep ==
    (s_pc \in {"Stepping", "Done"} /\ n_predict >= 1) =>
        \A b \in 1..num_samples :
            /\ returned[1][b] # OffGrid
            /\ returned[1][b] =
                  einsum_ij_jk_ik(used.so3_state[b],
                      matrix_exp(BodyFrame(used.so3_state[b], used.so3_velocity[b], used.dt)))

\* C21 witness: a step has returned from a state that is not the identity with
\* a velocity for which the transpose matters: the state times the velocity
\* and the velocity times the state both differ from the body-frame matrix.
C21_Witness ==
    /\ s_pc \in {"Stepping", "Done"}
    /\ n_predict >= 1
    /\ used.so3_state[1] # I3
    /\ LET rot == used.so3_state[1]
           scaled == MatTimesRat(used.so3_velocity[1], used.dt)
       IN  /\ einsum_ij_jk_ik(rot, scaled) # BodyFrame(rot, used.so3_velocity[1], used.dt)
           /\ einsum_ij_jk_ik(scaled, rot) # BodyFrame(rot, used.so3_velocity[1], used.dt)
    /\ returned[1][1] # used.so3_state[1]


\* ---------------------------------------------------------------- C22
\* C22 (as stated): at every sampler step the predictor call is accepted by
\* the predictor's signature (it receives no more positional arguments than
\* forward declares) and yields both velocities, so no step of a rollout with
\* the repository's VelocityNetwork raises.
C22_PredictorCallAccepted ==
    /\ (model = "VelocityNetwork" => s_pc # "Raised")
    /\ (model = "VelocityNetwork" /\ idx >= 1 => n_predict = idx /\ returned # <<>>)


\* ---------------------------------------------------------------- C23
CodecReturned == rc_pc = "done" /\ rc_out.raised = "none"

\* C23: for every rotation matrix of an accepted batch exactly one branch is
\* taken, the one of the first maximum of (d0, d1, d2, trace); when a diagonal
\* wins, (i, j, k) is a cyclic permutation of the three indices; the component
\* the branch writes at the pivot is strictly positive, so the quaternion is
\* not zero.
C23_BranchSelection ==
    CodecReturned =>
        /\ Len(rc_quat) = Len(matrix.data)
        /\ \A n \in 1..Len(rc_quat) :
              LET s == rc_quat[n]
                  d == s.decision
              IN  /\ s.choice \in 1..4
                  /\ \A o \in 1..4 : d[o] <= d[s.choice]
                  /\ \A o \in 1..4 : d[o] = d[s.choice] => s.choice <= o
                  /\ s.choice # 4 =>
                        /\ s.ijk \in {<<1, 2, 3>>, <<2, 3, 1>>, <<3, 1, 2>>}
                        /\ s.ijk[1] = s.choice
                  /\ s.choice = 4 => s.ijk = <<>>
                  /\ s.quat[s.choice] > 0
                  /\ s.quat # <<0, 0, 0, 0>>

\* C23 witness: a batch whose first matrix has all four decision values equal
\* (a third of a turn about a body diagonal: the tie goes to diagonal 0) and
\* whose second matrix takes the trace branch.
C23_Witness ==
    /\ CodecReturned
    /\ Len(rc_quat) = 2
    /\ rc_quat[1].decision = <<0, 0, 0, 0>>
    /\ rc_quat[1].choice = 1
    /\ rc_quat[1].quat[1] > 0
    /\ rc_quat[2].choice = 4

C25_TimeIsAccumulatedDt ==
    /\ (idx >= 1 /\ s_pc \in {"Stepping", "Done", "Raised"}) =>
          \A b \in 1..num_samples :
              RatEq(used.t_batch[b], RatMul(Rat(idx - 1, 1), used.dt))
    /\ s_pc = "Done" => RatEq(RatMul(Rat(idx, 1), dt), Rat(1, 1))


\* ---------------------------------------------------------------- C26
\* C26: the predictor's rotation velocity is so3_input * S with
\* S = (V - V^T) / 2, V the raw 3x3 output: S has a zero diagonal and
\* S = -S^T; so in every step that returned, the matrix handed to the matrix
\* exponential, rot^T * (so3_velocity * dt), is dt * S and is skew-symmetric.
C26_ExponentiatesSkew ==
    (s_pc \in {"Stepping", "Done"} /\ n_predict >= 1) =>
        \A b \in 1..num_samples :
            LET rot == used.so3_state[b]
                V == used.raw[b].so3
                S == einsum_ij_jk_ik(Transpose(rot), used.so3_velocity[b])
                M == BodyFrame(rot, used.so3_velocity[b], used.dt)
            IN  /\ IsRotation(rot)
                /\ used.so3_velocity[b] = einsum_ij_jk_ik(rot, S)
                /\ M # OffGrid
                /\ \A i, j \in Idx3 :
                      /\ 2 * S[i][j] = V[i][j] - V[j][i]
                      /\ S[i][j] = -S[j][i]
                      /\ RatEq(Rat(M[i][j], 1), RatMul(used.dt, Rat(S[i][j], 1)))
                      /\ M[i][j] = -M[j][i]
                /\ \A i \in Idx3 : S[i][i] = 0 /\ M[i][i] = 0

\* C26 witness: a step with a proper fraction as step size has returned from
\* a state that is not the identity, its raw output was not skew-symmetric and
\* the skew-symmetric part of it was not zero.
C26_Witness ==
    /\ s_pc \in {"Stepping", "Done"}
    /\ n_predict >= 2
    /\ steps >= 2
    /\ used.so3_state[1] # I3
    /\ used.raw[1].so3 # MatScale(-1, Transpose(used.raw[1].so3))
    /\ BodyFrame(used.so3_state[1], used.so3_velocity[1], used.dt) \in Generators


\* ---------------------------------------------------------------- C27
\* C27 (as stated): in every training step the loss of the batch is computed
\* and returned, and a rollout is sampled and logged exactly when the batch
\* index is a positive multiple of sample_interval; so after the batches
\* 0..n-1 the rollouts logged are (n - 1) divided by sample_interval.
C27_PeriodicLogging ==
    (tr_pc # "off" /\ tr_last # NoStep) =>
        /\ tr_last.outcome.raised = "none"
        /\ tr_last.outcome.value \in LossValues
        /\ tr_last.sampled <=>
              /\ tr_last.batch_idx >= 1
              /\ \E n \in 1..MaxBatches : tr_last.batch_idx = n * sample_interval
        /\ tr_logged = (batch_idx - 1) \div sample_interval

====
